---- MODULE Spec2Model ----
(***************************************************************************)
(* Model of the video-generator pipeline: the job status record kept in    *)
(* memory (api/main.py `jobs`) and on disk (metadata.json), the per-job    *)
(* artifact tree written by the stage services, the remote provider tasks  *)
(* the stages create, and the background tasks that FastAPI runs on one    *)
(* asyncio event loop.  One job id (one title) is modelled; every          *)
(* submission in the model is a submission of that title.                  *)
(*                                                                         *)
(* Spec and FairSpec run the pipeline (the full-video and the prompt        *)
(* endpoint).  ApiSpec adds the other endpoints that act on the job: the   *)
(* voiceover task, the concat and mux handlers, delete and cleanup.        *)
(* CallSpec and PollSpec run single calls of the functions underneath      *)
(* (KieClient.create_task, extract_result_url and poll_task;               *)
(* StorageManager.generate_job_id, save_job_metadata, update_job_status    *)
(* and cleanup_old_jobs; the status and the list handler) on inputs drawn  *)
(* from small sets.  StoreSpec runs sequences of save_prompts_json, the    *)
(* video stage and combine_videos on the directories of one job.           *)
(***************************************************************************)
EXTENDS Integers, Sequences, FiniteSets, TLC

\* ---------------------------------------------------------------- bounds
MaxShots == 2
MaxRuns == 2

Runs == 1..MaxRuns
NoRun == 0
Absent == "-"

\* ---------------------------------------------------------------- JobStatus
PENDING == "pending"
PROCESSING == "processing"
COMPLETED == "completed"
FAILED == "failed"
JobStatus == {PENDING, PROCESSING, COMPLETED, FAILED}

\* ---------------------------------------------------------------- paths
\* A path below jobs/<job_id>/ is <<stage directory, file, shot number>>.
PromptsFile == <<"prompts", "prompts.json", 0>>
NoPath == <<Absent, Absent, 0>>
get_video_path(n) == <<"videos", "shot.mp4", n>>
get_concat_video_path == <<"videos", "concatenated.mp4", 0>>
get_audio_path == <<"audio", "voiceover.mp3", 0>>
get_final_video_path == <<"final", "final.mp4", 0>>
get_frame_path(n) == <<"frames", "last.png", n>>

VARIABLES
    files,      \* the job's artifact tree: path -> content, for the paths that exist
    disk,       \* prompts/metadata.json of the job (every key Absent: no record)
    mem,        \* jobs[job_id] of api/main.py (status Absent: no entry)
    runs,       \* the background tasks added so far: run -> its local state
    nruns,      \* number of background tasks added so far
    onLoop,     \* the task that holds the event loop (NoRun: the loop is free)
    created,    \* unit of work -> number of create_task requests sent for it
    requests,   \* the payloads sent to the provider by create_task
    overlapped, \* history: a submission was made while an earlier task was unfinished
    call        \* a call of a client or storage function taken on its own (NoCall: none)

pipeline == <<files, disk, mem, runs, nruns, onLoop, created, requests, overlapped>>
vars == <<files, disk, mem, runs, nruns, onLoop, created, requests, overlapped, call>>

\* ---------------------------------------------------------------- files
Exists(p) == p \in DOMAIN files
Content(tag, val) == [tag |-> tag, val |-> val]
WriteFile(f, p, c) == [q \in (DOMAIN f) \cup {p} |-> IF q = p THEN c ELSE f[q]]

\* ---------------------------------------------------------------- status record
NoMeta ==
    [status |-> Absent, message |-> Absent, error |-> Absent, result |-> Absent,
     videos_completed |-> 0, videos_total |-> 0]
NoKw == [x \in {} |-> Absent]

\* Mutant: the record is written anew from the arguments.
UpdatedMetadata_Anew(metadata, status, now, kwargs) ==
    [k \in {"status", "updated_at"} \cup DOMAIN kwargs |->
        IF k \in DOMAIN kwargs THEN kwargs[k]
        ELSE IF k = "status" THEN status
        ELSE now]

\* The record update_job_status saves: the record it loaded (a dict, key ->
\* value) after
\*   metadata["status"] = status
\*   metadata["updated_at"] = datetime.now().isoformat()
\*   metadata.update(kwargs)
UpdatedMetadata(metadata, status, now, kwargs) ==
    LET with_status ==
            [k \in DOMAIN metadata \cup {"status"} |->
                IF k = "status" THEN status ELSE metadata[k]]
        with_time ==
            [k \in DOMAIN with_status \cup {"updated_at"} |->
                IF k = "updated_at" THEN now ELSE with_status[k]]
    IN [k \in DOMAIN with_time \cup DOMAIN kwargs |->
           IF k \in DOMAIN kwargs THEN kwargs[k] ELSE with_time[k]]

\* update_job_status on the record of the modelled job, which is kept without
\* its updated_at.
update_job_status(m, status, kw) ==
    LET saved == UpdatedMetadata(m, status, Absent, kw)
    IN [k \in DOMAIN m |-> saved[k]]

\* jobs[job_id] = {...}: the whole entry is replaced.
JobEntry(status, message, result, error) ==
    [status |-> status, message |-> message, result |-> result, error |-> error]
NoEntry == JobEntry(Absent, Absent, Absent, Absent)

\* ---------------------------------------------------------------- tasks
IdleRun ==
    [kind |-> Absent, pc |-> "idle", stage |-> Absent, n |-> 0, idx |-> 0,
     prev |-> NoPath, nres |-> 0, mode |-> Absent, seed |-> 0, error |-> Absent,
     voice_text |-> 0]

Units == (1..MaxShots) \cup {0}      \* 0: the narration

NoCall == [fn |-> Absent]

PipelineInit ==
    /\ files = [p \in {} |-> Content(Absent, 0)]
    /\ disk = NoMeta
    /\ mem = NoEntry
    /\ runs = [r \in Runs |-> IdleRun]
    /\ nruns = 0
    /\ onLoop = NoRun
    /\ created = [u \in Units |-> 0]
    /\ requests = {}
    /\ overlapped = FALSE

Init == PipelineInit /\ call = NoCall

\* ---------------------------------------------------------------- provider
\* create_task: the POST is sent; the answer arrives at a later step.  image is
\* the input of the request besides the prompt: the shot whose last frame seeds
\* an image-to-video request, the narration text of a text-to-speech request.
SendCreate(unit, model, image) ==
    /\ created' = [created EXCEPT ![unit] = @ + 1]
    /\ requests' = requests \cup {[unit |-> unit, model |-> model, image |-> image]}

\* ---------------------------------------------------------------- error handlers
\* except Exception as e: of the background task that run r executes.
FailureMessage(kind) ==
    CASE kind = "full" -> "Pipeline failed"
      [] kind = "prompts" -> "Failed to generate prompts"
      [] OTHER -> Absent

\* The full pipeline and the prompt task record a failure in the in-memory
\* table and in metadata.json, the voiceover task in the in-memory table only;
\* the handlers that call a service themselves answer with HTTP 500.
Raise(r, msg) ==
    /\ mem' = IF runs[r].kind \in {"combine", "merge"} THEN mem
              ELSE JobEntry(FAILED, FailureMessage(runs[r].kind), Absent, msg)
    /\ disk' = IF runs[r].kind \in {"full", "prompts"}
               THEN update_job_status(disk, FAILED, [error |-> msg])
               ELSE disk
    /\ runs' = [runs EXCEPT ![r].pc = "failed", ![r].error = msg]
    /\ onLoop' = NoRun

\* ---------------------------------------------------------------- submissions
Unfinished == {r \in Runs : runs[r].pc \notin {"idle", "done", "failed"}}

\* POST /api/generate_full_video: the handler, up to background_tasks.add_task.
generate_full_video ==
    /\ onLoop = NoRun
    /\ nruns < MaxRuns
    /\ nruns' = nruns + 1
    /\ mem' = JobEntry(PENDING, "Full pipeline queued", Absent, Absent)
    /\ disk' = update_job_status(disk, PENDING, NoKw)
    /\ runs' = [runs EXCEPT ![nruns + 1] = [IdleRun EXCEPT !.kind = "full", !.pc = "queued"]]
    /\ overlapped' = (overlapped \/ Unfinished # {})
    /\ UNCHANGED <<call, files, onLoop, created, requests>>

\* POST /api/prompts: the handler, up to background_tasks.add_task.
create_prompts ==
    /\ onLoop = NoRun
    /\ nruns < MaxRuns
    /\ nruns' = nruns + 1
    /\ mem' = JobEntry(PENDING, "Prompt generation queued", Absent, Absent)
    /\ disk' = update_job_status(disk, PENDING, NoKw)
    /\ runs' = [runs EXCEPT ![nruns + 1] = [IdleRun EXCEPT !.kind = "prompts", !.pc = "queued"]]
    /\ overlapped' = (overlapped \/ Unfinished # {})
    /\ UNCHANGED <<call, files, onLoop, created, requests>>

\* ---------------------------------------------------------------- stage 1: prompts
\* Mutant: the prompts directory is never looked at.
prompts_files_None == {}

\* prompts_dir.glob("*_prompts.json")
prompts_files == {p \in DOMAIN files : p[1] = "prompts" /\ p[2] = "prompts.json"}

\* full_pipeline_task, step 1: skip when a *_prompts.json exists.
PromptStage(r) ==
    /\ runs[r].kind = "full" /\ runs[r].pc = "queued"
    /\ onLoop = NoRun
    /\ onLoop' = r
    /\ IF prompts_files # {}
       THEN \* load_prompts_json(prompts_files[0]), its metadata.voice_reader
            /\ runs' = [runs EXCEPT ![r].stage = "prompt", ![r].pc = "video_enter",
                                    ![r].voice_text = files[PromptsFile].val]
            /\ UNCHANGED <<call, mem, disk>>
       ELSE /\ mem' = JobEntry(PROCESSING, "Step 1/5: Generating prompts...", Absent, Absent)
            /\ disk' = update_job_status(disk, PROCESSING, [message |-> "Generating prompts"])
            /\ runs' = [runs EXCEPT ![r].stage = "prompt", ![r].pc = "prompt_gen"]
    /\ UNCHANGED <<call, files, nruns, overlapped, created, requests>>

\* generate_prompts_task, up to the call of generate_prompts.
generate_prompts_task(r) ==
    /\ runs[r].kind = "prompts" /\ runs[r].pc = "queued"
    /\ onLoop = NoRun
    /\ onLoop' = r
    /\ mem' = JobEntry(PROCESSING, "Analyzing article with Claude API...", Absent, Absent)
    /\ disk' = update_job_status(disk, PROCESSING, NoKw)
    /\ runs' = [runs EXCEPT ![r].stage = "prompt", ![r].pc = "prompt_gen"]
    /\ UNCHANGED <<call, files, nruns, overlapped, created, requests>>

\* The status generate_prompts records after saving the prompts file.
PromptsSavedStatus == "prompts_generated"

\* PromptService.generate_prompts: the language model answers with n shots
\* (numbered 1..n by the template) or the call or the parse fails.
generate_prompts(r) ==
    /\ runs[r].pc = "prompt_gen"
    /\ onLoop = r
    /\ \/ /\ Raise(r, "prompt generation failed")
          /\ UNCHANGED <<call, files, nruns, overlapped, created, requests>>
       \/ \E n \in 1..MaxShots :
            /\ files' = WriteFile(files, PromptsFile, Content("prompts", n))
            /\ disk' = update_job_status(disk, PromptsSavedStatus, NoKw)
            /\ runs' = [runs EXCEPT ![r].pc =
                            IF runs[r].kind = "full" THEN "video_enter" ELSE "prompts_done",
                                    ![r].voice_text = n]     \* prompts_result.voice_reader_text
            /\ UNCHANGED <<call, mem, nruns, overlapped, onLoop, created, requests>>

\* generate_prompts_task after generate_prompts returned.
generate_prompts_done(r) ==
    /\ runs[r].pc = "prompts_done"
    /\ onLoop = r
    /\ mem' = JobEntry(COMPLETED, "Prompts generated successfully", "prompts", Absent)
    /\ disk' = update_job_status(disk, COMPLETED, [result |-> "prompts"])
    /\ runs' = [runs EXCEPT ![r].pc = "done"]
    /\ onLoop' = NoRun
    /\ UNCHANGED <<call, files, nruns, overlapped, created, requests>>

\* ---------------------------------------------------------------- stage 2: videos
\* full_pipeline_task, step 2, up to the loop of generate_videos_from_prompts.
VideoStage(r) ==
    /\ runs[r].pc = "video_enter"
    /\ onLoop = r
    /\ mem' = JobEntry(PROCESSING, "Step 2/5: Generating videos (this takes 12-30 min)...",
                       Absent, Absent)
    /\ disk' = update_job_status(disk, PROCESSING, [message |-> "Generating videos"])
    /\ runs' = [runs EXCEPT ![r].stage = "video", ![r].pc = "shot",
                            ![r].n = files[PromptsFile].val,     \* load_prompts_json
                            ![r].idx = 1, ![r].prev = NoPath, ![r].nres = 0]
    /\ UNCHANGED <<call, files, nruns, overlapped, onLoop, created, requests>>

\* expected_path of generate_videos_from_prompts: get_job_dir(job_id) has no
\* stage, so the file is looked for in the job's root directory.
expected_path(shot_number) == <<"", "shot.mp4", shot_number>>

\* Mutant: the loop stops one shot early.
LoopDone_OneShort(idx, n) == idx >= n

\* for idx, shot in enumerate(shots, 1): the loop ends after the last shot.
LoopDone(idx, n) == idx > n

\* Mutant: the previous video is never used as the seed.
UseImage_Never(prev, shot_number) == FALSE

\* if previous_video_path and shot_number > 1: image-to-video
UseImage(prev, shot_number) == prev # NoPath /\ shot_number > 1

\* Mutant: the frame is filed under the shot being generated.
FrameShot_Current(shot_number) == shot_number

\* extract_last_frame(..., shot_number=shot_number - 1): the shot the frame is filed under
FrameShot(shot_number) == shot_number - 1

\* Mutant: the counter is written before the shot is counted.
ProgressKw_Behind(idx, total) ==
    [message |-> "Generated videos", videos_completed |-> idx - 1, videos_total |-> total]

\* message=f"Generated {idx}/{len(shots)} videos", progress={...}
ProgressKw(idx, total) ==
    [message |-> "Generated videos", videos_completed |-> idx, videos_total |-> total]

\* One pass of the loop body of generate_videos_from_prompts, up to its first
\* await: the skip of an existing shot, the frame extraction and the start of
\* the frame upload (image-to-video), or the create_task request (text-to-video).
ShotLoop(r) ==
    /\ runs[r].pc = "shot"
    /\ onLoop = r
    /\ LET idx == runs[r].idx
           shot_number == runs[r].idx
           prev == runs[r].prev
       IN
       IF LoopDone(idx, runs[r].n)
       THEN \* every shot has a result: return results
            /\ runs' = [runs EXCEPT ![r].pc = "concat_enter"]
            /\ UNCHANGED <<call, files, disk, mem, nruns, overlapped, onLoop, created, requests>>
       ELSE IF Exists(expected_path(shot_number))
       THEN /\ runs' = [runs EXCEPT ![r].nres = @ + 1, ![r].idx = @ + 1,
                                    ![r].prev = expected_path(shot_number)]
            /\ disk' = update_job_status(disk, "processing", ProgressKw(idx, runs[r].n))
            /\ UNCHANGED <<call, files, mem, nruns, overlapped, onLoop, created, requests>>
       ELSE IF UseImage(prev, shot_number)
       THEN \* extract_last_frame(prev, shot_number - 1), then upload_image
            IF ~Exists(prev)
            THEN /\ Raise(r, "Video not found")
                 /\ UNCHANGED <<call, files, nruns, overlapped, created, requests>>
            ELSE \E ffmpeg_ok \in BOOLEAN :
                   IF ffmpeg_ok
                   THEN /\ files' = WriteFile(files, get_frame_path(FrameShot(shot_number)),
                                              Content("frame", prev[3]))
                        /\ runs' = [runs EXCEPT ![r].pc = "upload", ![r].mode = "image",
                                                ![r].seed = prev[3]]
                        /\ onLoop' = NoRun
                        /\ UNCHANGED <<call, disk, mem, nruns, overlapped, created, requests>>
                   ELSE /\ Raise(r, "FFmpeg failed to extract frame")
                        /\ UNCHANGED <<call, files, nruns, overlapped, created, requests>>
       ELSE \* generate_video_from_text: create_task
            /\ SendCreate(shot_number, "sora-2-text-to-video", 0)
            /\ runs' = [runs EXCEPT ![r].pc = "create", ![r].mode = "text", ![r].seed = 0]
            /\ onLoop' = NoRun
            /\ UNCHANGED <<call, files, disk, mem, nruns, overlapped>>

\* generate_video_from_image: the answer of upload_image, then create_task.
upload_image(r) ==
    /\ runs[r].pc = "upload"
    /\ onLoop = NoRun
    /\ \/ /\ Raise(r, "Image upload failed")
          /\ UNCHANGED <<call, files, nruns, overlapped, created, requests>>
       \/ /\ SendCreate(runs[r].idx, "sora-2-image-to-video", runs[r].seed)
          /\ runs' = [runs EXCEPT ![r].pc = "create"]
          /\ UNCHANGED <<call, files, disk, mem, nruns, overlapped, onLoop>>

\* ---------------------------------------------------------------- remote task
\* The answer to create_task: a task id, or an error.
create_task(r) ==
    /\ runs[r].pc = "create"
    /\ onLoop = NoRun
    /\ \/ /\ Raise(r, "No taskId in API response")
          /\ UNCHANGED <<call, files, nruns, overlapped, created, requests>>
       \/ /\ runs' = [runs EXCEPT ![r].pc = "poll"]
          /\ UNCHANGED <<call, files, disk, mem, nruns, overlapped, onLoop, created, requests>>

\* poll_task ends: state success, state fail, or the timeout.
poll_task(r) ==
    /\ runs[r].pc = "poll"
    /\ onLoop = NoRun
    /\ \/ \E msg \in {"Task failed", "Polling timeout"} :
            /\ Raise(r, msg)
            /\ UNCHANGED <<call, files, nruns, overlapped, created, requests>>
       \/ /\ runs' = [runs EXCEPT ![r].pc = "download"]
          /\ UNCHANGED <<call, files, disk, mem, nruns, overlapped, onLoop, created, requests>>

\* download_file ended; save_video stores the clip and the loop goes on.
download_video(r) ==
    /\ runs[r].pc = "download" /\ runs[r].stage = "video"
    /\ onLoop = NoRun
    /\ \/ /\ Raise(r, "download failed")
          /\ UNCHANGED <<call, files, nruns, overlapped, created, requests>>
       \/ /\ files' = WriteFile(files, get_video_path(runs[r].idx),
                                Content(runs[r].mode, runs[r].seed))
          /\ disk' = update_job_status(disk, "processing",
                                       ProgressKw(runs[r].idx, runs[r].n))
          /\ runs' = [runs EXCEPT ![r].pc = "shot", ![r].nres = @ + 1, ![r].idx = @ + 1,
                                  ![r].prev = get_video_path(runs[r].idx)]
          /\ onLoop' = r
          /\ UNCHANGED <<call, mem, nruns, overlapped, created, requests>>

\* download_file ended; save_audio stores the voiceover.
download_audio(r) ==
    /\ runs[r].pc = "download" /\ runs[r].stage = "narration"
    /\ onLoop = NoRun
    /\ \/ /\ Raise(r, "download failed")
          /\ UNCHANGED <<call, files, nruns, overlapped, created, requests>>
       \/ /\ files' = WriteFile(files, get_audio_path, Content("audio", 0))
          /\ runs' = [runs EXCEPT ![r].pc = "mux_enter"]
          /\ onLoop' = r
          /\ UNCHANGED <<call, disk, mem, nruns, overlapped, created, requests>>

\* Mutant: a stage never finds its artifact and always does the work again.
AlreadyExists_Never(output_path) == FALSE

\* if os.path.exists(output_path): return output_path  (the skip of the concat,
\* narration and mux stages)
AlreadyExists(output_path) == Exists(output_path)

\* ---------------------------------------------------------------- stage 3: concat
\* full_pipeline_task, step 3, up to the call of combine_videos.
ConcatStage(r) ==
    /\ runs[r].pc = "concat_enter"
    /\ onLoop = r
    /\ mem' = JobEntry(PROCESSING, "Step 3/5: Concatenating videos...", Absent, Absent)
    /\ disk' = update_job_status(disk, PROCESSING, [message |-> "Concatenating videos"])
    /\ runs' = [runs EXCEPT ![r].stage = "concat", ![r].pc = "concat"]
    /\ UNCHANGED <<call, files, nruns, overlapped, onLoop, created, requests>>

\* videos/*.mp4 except concatenated.mp4 and final.mp4
list_videos_for_job ==
    {p \in DOMAIN files :
        p[1] = "videos" /\ p[2] \notin {"concatenated.mp4", "final.mp4"}}

\* Mutant: the ffmpeg run consumes the concatenated intermediate.
FfmpegOutput_DropsIntermediate(outcome, output_path, content) ==
    IF outcome = "ok"
    THEN [q \in ((DOMAIN files) \ {<<"videos", "concatenated.mp4", 0>>}) \cup {output_path} |->
             IF q = output_path THEN content ELSE files[q]]
    ELSE files

\* Mutant: subprocess.run without check=True, a failed ffmpeg goes unnoticed.
CalledProcessError_Unchecked(outcome) == FALSE

\* subprocess.run(cmd, check=True): a non-zero exit of ffmpeg raises.
CalledProcessError(outcome) == outcome # "ok"

\* ffmpeg -y ... output_path writes straight to the output path: a run that
\* fails may leave nothing there, or a partial file.
FfmpegOutput(outcome, output_path, content) ==
    IF outcome = "ok" THEN WriteFile(files, output_path, content)
    ELSE IF outcome = "failed_partial" THEN WriteFile(files, output_path, Content("partial", 0))
    ELSE files

\* Mutant: an empty list of clips is handed to ffmpeg.
NoVideos_Unchecked(video_paths) == FALSE

\* if not video_paths: raise ValueError
NoVideos(video_paths) == video_paths = {}

\* MergeService.combine_videos
combine_videos(r) ==
    /\ runs[r].pc = "concat"
    /\ onLoop = r
    /\ IF AlreadyExists(get_concat_video_path)
       THEN /\ runs' = [runs EXCEPT ![r].pc = "tts_enter"]
            /\ UNCHANGED <<call, files, disk, mem, nruns, overlapped, onLoop, created, requests>>
       ELSE IF NoVideos(list_videos_for_job)
       THEN /\ Raise(r, "No videos found")
            /\ UNCHANGED <<call, files, nruns, overlapped, created, requests>>
       ELSE \E outcome \in {"ok", "failed", "failed_partial"} :
              /\ files' = FfmpegOutput(outcome, get_concat_video_path,
                                       Content("concat", Cardinality(list_videos_for_job)))
              /\ IF CalledProcessError(outcome)
                 THEN /\ Raise(r, "ffmpeg concat failed")
                      /\ UNCHANGED <<call, nruns, overlapped, created, requests>>
                 ELSE /\ runs' = [runs EXCEPT ![r].pc = "tts_enter"]
                      /\ UNCHANGED <<call, disk, mem, nruns, overlapped, onLoop, created, requests>>

\* ---------------------------------------------------------------- stage 4: narration
\* full_pipeline_task, step 4, up to the call of generate_voiceover.
NarrationStage(r) ==
    /\ runs[r].kind = "full" /\ runs[r].pc = "tts_enter"
    /\ onLoop = r
    /\ mem' = JobEntry(PROCESSING, "Step 4/5: Generating voiceover...", Absent, Absent)
    /\ disk' = update_job_status(disk, PROCESSING, [message |-> "Generating voiceover"])
    /\ runs' = [runs EXCEPT ![r].stage = "narration", ![r].pc = "tts"]
    /\ UNCHANGED <<call, files, nruns, overlapped, onLoop, created, requests>>

\* TTSService.generate_voiceover, up to its first await.
generate_voiceover(r) ==
    /\ runs[r].pc = "tts"
    /\ onLoop = r
    /\ IF AlreadyExists(get_audio_path)
       THEN /\ runs' = [runs EXCEPT ![r].pc = "mux_enter"]
            /\ UNCHANGED <<call, files, disk, mem, nruns, overlapped, onLoop, created, requests>>
       ELSE /\ SendCreate(0, "elevenlabs/text-to-speech-multilingual-v2", runs[r].voice_text)
            /\ runs' = [runs EXCEPT ![r].pc = "create"]
            /\ onLoop' = NoRun
            /\ UNCHANGED <<call, files, disk, mem, nruns, overlapped>>

\* ---------------------------------------------------------------- stage 5: mux
\* full_pipeline_task, step 5, up to the call of merge_final_video.
MuxStage(r) ==
    /\ runs[r].kind = "full" /\ runs[r].pc = "mux_enter"
    /\ onLoop = r
    /\ mem' = JobEntry(PROCESSING, "Step 5/5: Merging audio and video...", Absent, Absent)
    /\ disk' = update_job_status(disk, PROCESSING, [message |-> "Merging final video"])
    /\ runs' = [runs EXCEPT ![r].stage = "mux", ![r].pc = "mux"]
    /\ UNCHANGED <<call, files, nruns, overlapped, onLoop, created, requests>>

\* MergeService.merge_final_video(job_id, concatenated_path, audio_path)
merge_final_video(r) ==
    /\ runs[r].pc = "mux"
    /\ onLoop = r
    /\ IF AlreadyExists(get_final_video_path)
       THEN /\ runs' = [runs EXCEPT ![r].pc = "finish"]
            /\ UNCHANGED <<call, files, disk, mem, nruns, overlapped, onLoop, created, requests>>
       ELSE IF ~Exists(get_concat_video_path)
       THEN /\ Raise(r, "Video not found")
            /\ UNCHANGED <<call, files, nruns, overlapped, created, requests>>
       ELSE IF ~Exists(get_audio_path)
       THEN /\ Raise(r, "Audio not found")
            /\ UNCHANGED <<call, files, nruns, overlapped, created, requests>>
       ELSE \E outcome \in {"ok", "failed", "failed_partial"} :
              /\ files' = FfmpegOutput(outcome, get_final_video_path,
                                       Content("final", files[get_concat_video_path].val))
              /\ IF CalledProcessError(outcome)
                 THEN /\ Raise(r, "ffmpeg merge failed")
                      /\ UNCHANGED <<call, nruns, overlapped, created, requests>>
                 ELSE /\ disk' = update_job_status(disk, "completed",
                                                   [message |-> "Final video created"])
                      /\ runs' = [runs EXCEPT ![r].pc = "finish"]
                      /\ UNCHANGED <<call, mem, nruns, overlapped, onLoop, created, requests>>

\* full_pipeline_task after step 5: "Complete!"
PipelineComplete(r) ==
    /\ runs[r].kind = "full" /\ runs[r].pc = "finish"
    /\ onLoop = r
    /\ mem' = JobEntry(COMPLETED, "Complete pipeline finished successfully", "final", Absent)
    /\ disk' = update_job_status(disk, COMPLETED, [result |-> "final"])
    /\ runs' = [runs EXCEPT ![r].pc = "done"]
    /\ onLoop' = NoRun
    /\ UNCHANGED <<call, files, nruns, overlapped, created, requests>>

\* One step of the background task of run r.
TaskStep(r) ==
    \/ PromptStage(r)
    \/ generate_prompts_task(r)
    \/ generate_prompts(r)
    \/ generate_prompts_done(r)
    \/ VideoStage(r)
    \/ ShotLoop(r)
    \/ upload_image(r)
    \/ create_task(r)
    \/ poll_task(r)
    \/ download_video(r)
    \/ download_audio(r)
    \/ ConcatStage(r)
    \/ combine_videos(r)
    \/ NarrationStage(r)
    \/ generate_voiceover(r)
    \/ MuxStage(r)
    \/ merge_final_video(r)
    \/ PipelineComplete(r)

Next ==
    \/ generate_full_video
    \/ create_prompts
    \/ \E r \in Runs : TaskStep(r)

Spec == Init /\ [][Next]_vars

\* The event loop runs every task that is ready, and every request to the
\* provider, to ffmpeg or to the language model ends (with an answer, an error
\* or a timeout): no task waits forever.
FairSpec == Spec /\ \A r \in Runs : WF_vars(TaskStep(r))

\* ================================================================ the other endpoints
\* ---------------------------------------------------------------- POST /api/create_voice
RequestText == MaxShots + 1          \* a narration text sent with the request

\* The handler, up to background_tasks.add_task: the request carries the text,
\* or the text is read from the prompts file (404 when there is none).
create_voiceover ==
    /\ onLoop = NoRun
    /\ nruns < MaxRuns
    /\ \E has_text \in BOOLEAN :
         /\ has_text \/ prompts_files # {}
         /\ runs' = [runs EXCEPT ![nruns + 1] =
                         [IdleRun EXCEPT !.kind = "voice", !.pc = "queued",
                                         !.voice_text = IF has_text THEN RequestText
                                                        ELSE files[PromptsFile].val]]
    /\ nruns' = nruns + 1
    /\ mem' = JobEntry(PENDING, "Voiceover generation queued", Absent, Absent)
    /\ overlapped' = (overlapped \/ Unfinished # {})
    /\ UNCHANGED <<call, files, disk, onLoop, created, requests>>

\* generate_voiceover_task, up to the call of generate_voiceover.
generate_voiceover_task(r) ==
    /\ runs[r].kind = "voice" /\ runs[r].pc = "queued"
    /\ onLoop = NoRun
    /\ onLoop' = r
    /\ mem' = JobEntry(PROCESSING, "Generating voiceover...", Absent, Absent)
    /\ runs' = [runs EXCEPT ![r].stage = "narration", ![r].pc = "tts"]
    /\ UNCHANGED <<call, files, disk, nruns, overlapped, created, requests>>

\* generate_voiceover_task after generate_voiceover returned.
generate_voiceover_done(r) ==
    /\ runs[r].kind = "voice" /\ runs[r].pc = "mux_enter"
    /\ onLoop = r
    /\ mem' = JobEntry(COMPLETED, "Voiceover generated", "audio", Absent)
    /\ runs' = [runs EXCEPT ![r].pc = "done"]
    /\ onLoop' = NoRun
    /\ UNCHANGED <<call, files, disk, nruns, overlapped, created, requests>>

\* ---------------------------------------------------------------- POST /api/combine_videos
\* The handler calls MergeService.combine_videos itself and holds the event
\* loop until it answers.
post_combine_videos ==
    /\ onLoop = NoRun
    /\ nruns < MaxRuns
    /\ nruns' = nruns + 1
    /\ onLoop' = nruns + 1
    /\ runs' = [runs EXCEPT ![nruns + 1] =
                    [IdleRun EXCEPT !.kind = "combine", !.stage = "concat", !.pc = "concat"]]
    /\ overlapped' = (overlapped \/ Unfinished # {})
    /\ UNCHANGED <<call, files, disk, mem, created, requests>>

\* The answer of the handler after combine_videos returned.
combine_videos_response(r) ==
    /\ runs[r].kind = "combine" /\ runs[r].pc = "tts_enter"
    /\ onLoop = r
    /\ runs' = [runs EXCEPT ![r].pc = "done"]
    /\ onLoop' = NoRun
    /\ UNCHANGED <<call, files, disk, mem, nruns, overlapped, created, requests>>

\* ---------------------------------------------------------------- POST /api/merge_final
\* The handler calls MergeService.merge_final_video itself (here with the
\* default paths) and holds the event loop until it answers.
post_merge_final ==
    /\ onLoop = NoRun
    /\ nruns < MaxRuns
    /\ nruns' = nruns + 1
    /\ onLoop' = nruns + 1
    /\ runs' = [runs EXCEPT ![nruns + 1] =
                    [IdleRun EXCEPT !.kind = "merge", !.stage = "mux", !.pc = "mux"]]
    /\ overlapped' = (overlapped \/ Unfinished # {})
    /\ UNCHANGED <<call, files, disk, mem, created, requests>>

\* The answer of the handler after merge_final_video returned.
merge_final_response(r) ==
    /\ runs[r].kind = "merge" /\ runs[r].pc = "finish"
    /\ onLoop = r
    /\ runs' = [runs EXCEPT ![r].pc = "done"]
    /\ onLoop' = NoRun
    /\ UNCHANGED <<call, files, disk, mem, nruns, overlapped, created, requests>>

\* ---------------------------------------------------------------- DELETE /api/jobs
\* jobs/<job_id> holds something (the directories the services make are not
\* modelled apart from what they hold).
JobExists == DOMAIN files # {} \/ disk # NoMeta

\* shutil.rmtree(job_root): every artifact and the status record go; the entry
\* of the in-memory table stays.
rmtree ==
    /\ files' = [p \in {} |-> Content(Absent, 0)]
    /\ disk' = NoMeta
    /\ UNCHANGED <<call, mem, runs, nruns, onLoop, created, requests, overlapped>>

\* DELETE /api/jobs/{job_id} (404 when there is no such directory)
delete_job ==
    /\ onLoop = NoRun
    /\ JobExists
    /\ rmtree

\* Times are in minutes.
Day == 24 * 60
DaysOld == {0, 7}                    \* days_old: int, any value the caller sends
Since == {1, 8 * Day}                \* how long ago the job was last updated

\* cutoff_time = datetime.now() - timedelta(days=days_old)
cutoff_time(now, days_old) == now - days_old * Day

\* Mutant: a job of exactly the threshold age counts as old.
Older_OrEqual(stamp, cutoff) == stamp <= cutoff

\* if created_at < cutoff_time / if mtime < cutoff_time
Older(stamp, cutoff) == stamp < cutoff

\* DELETE /api/jobs/cleanup?days_old=...: the modelled job is deleted when its
\* last update is older than the cutoff.  A job with an unfinished task was
\* updated a moment ago.
cleanup_old_jobs ==
    /\ onLoop = NoRun
    /\ JobExists
    /\ \E days_old \in DaysOld, since \in (IF Unfinished = {} THEN Since ELSE {1}) :
         IF Older(0 - since, cutoff_time(0, days_old))
         THEN rmtree
         ELSE UNCHANGED vars

ApiTaskStep(r) ==
    \/ TaskStep(r)
    \/ generate_voiceover_task(r)
    \/ generate_voiceover_done(r)
    \/ combine_videos_response(r)
    \/ merge_final_response(r)

ApiNext ==
    \/ generate_full_video
    \/ create_prompts
    \/ create_voiceover
    \/ post_combine_videos
    \/ post_merge_final
    \/ delete_job
    \/ cleanup_old_jobs
    \/ \E r \in Runs : ApiTaskStep(r)

ApiSpec == Init /\ [][ApiNext]_vars

\* ================================================================ functions
\* The client and storage functions the pipeline calls, each taken on its own:
\* `call` holds one call, its input drawn at the start, and the steps below run
\* it to its return or its error.

\* ---------------------------------------------------------------- JSON values
Null == [t |-> "null", v |-> ""]
Str(s) == [t |-> "str", v |-> s]
Num(n) == [t |-> "int", v |-> n]
Dict(f) == [t |-> "dict", v |-> f]
List(q) == [t |-> "list", v |-> q]
Missing == [t |-> "missing", v |-> ""]     \* marks a key a dict does not have

\* The dict with the given keys, without those whose value is Missing.
MakeDict(f) == Dict([k \in {j \in DOMAIN f : f[j] # Missing} |-> f[k]])

\* Python's truth value: None, "", 0, {} and [] are false.
Truthy(x) ==
    CASE x.t = "null" -> FALSE
      [] x.t = "str" -> x.v # ""
      [] x.t = "int" -> x.v # 0
      [] x.t = "dict" -> DOMAIN x.v # {}
      [] x.t = "list" -> x.v # <<>>
      [] OTHER -> FALSE

\* Mutant: the right operand is preferred.
Or_Right(a, b) == IF Truthy(b) THEN b ELSE a

\* a or b
Or(a, b) == IF Truthy(a) THEN a ELSE b

\* str(x)
PyStr(x) ==
    CASE x.t = "str" -> x.v
      [] x.t = "int" -> ToString(x.v)
      [] x.t = "null" -> "None"
      [] OTHER -> "{...}"

\* KieClient._safe_get(d, path): path is the sequence of the dotted keys.
RECURSIVE _safe_get(_, _)
_safe_get(d, path) ==
    IF path = <<>> THEN d
    ELSE IF d.t = "dict" /\ Head(path) \in DOMAIN d.v
    THEN _safe_get(d.v[Head(path)], Tail(path))
    ELSE Null

\* ---------------------------------------------------------------- KieClient.create_task
\* response.raise_for_status()
HTTPStatusError(status_code) == status_code >= 400

Returned(value) == [pc |-> "returned", ret |-> value, err |-> <<>>]
Raised(error) == [pc |-> "raised", ret |-> Absent, err |-> error]

\* create_task after the POST was answered with status_code and the body data.
create_task_outcome(status_code, data) ==
    IF HTTPStatusError(status_code) THEN Raised(<<"HTTPStatusError">>)
    ELSE IF data.t = "dict" /\ "code" \in DOMAIN data.v /\ data.v["code"] = Num(500)
    THEN Raised(<<"KIE API error">>)
    ELSE LET task_id == Or(Or(_safe_get(data, <<"data", "taskId">>),
                              _safe_get(data, <<"taskId">>)),
                           _safe_get(data, <<"data", "id">>))
         IN IF ~Truthy(task_id) THEN Raised(<<"No taskId in API response">>)
            ELSE Returned(PyStr(task_id))

\* The answers of the provider to a createTask request.
StatusCodes == {200, 503}
BodyCodes == {Missing, Num(200), Num(500), Num(501)}
DataValues ==
    {Missing, Null}
        \cup {MakeDict([taskId |-> t, id |-> i]) :
                 t \in {Missing, Str(""), Str("t1")}, i \in {Missing, Str("t3"), Num(7)}}
Bodies ==
    {MakeDict([code |-> c, taskId |-> t, data |-> d]) :
        c \in BodyCodes, t \in {Missing, Str("t2")}, d \in DataValues}
        \cup {Str("Service busy")}

CreateTaskCalls ==
    {[fn |-> "create_task", pc |-> "called", status_code |-> sc, data |-> d,
      ret |-> Absent, err |-> <<>>] : sc \in StatusCodes, d \in Bodies}

kie_create_task ==
    /\ call.fn = "create_task" /\ call.pc = "called"
    /\ LET out == create_task_outcome(call.status_code, call.data)
       IN call' = [call EXCEPT !.pc = out.pc, !.ret = out.ret, !.err = out.err]
    /\ UNCHANGED pipeline

\* ---------------------------------------------------------------- KieClient.extract_result_url
\* The texts a provider may put into data.resultJson.
JsonTexts ==
    {"{}", "{\"resultUrls\": null}", "{\"resultUrls\": []}", "{\"resultUrls\": [\"\"]}",
     "{\"resultUrls\": [null]}", "{\"resultUrls\": [\"u1\"]}",
     "{\"resultUrls\": [\"u1\", \"u2\"]}", "[\"u1\"]", "resultUrls=u1"}

JSONDecodeError == [t |-> "error", v |-> "JSONDecodeError"]

\* json.loads(text), for the texts above
json_loads(text) ==
    CASE text = "{}" -> Dict([k \in {} |-> Null])
      [] text = "{\"resultUrls\": null}" -> Dict([resultUrls |-> Null])
      [] text = "{\"resultUrls\": []}" -> Dict([resultUrls |-> List(<<>>)])
      [] text = "{\"resultUrls\": [\"\"]}" -> Dict([resultUrls |-> List(<<Str("")>>)])
      [] text = "{\"resultUrls\": [null]}" -> Dict([resultUrls |-> List(<<Null>>)])
      [] text = "{\"resultUrls\": [\"u1\"]}" -> Dict([resultUrls |-> List(<<Str("u1")>>)])
      [] text = "{\"resultUrls\": [\"u1\", \"u2\"]}" ->
            Dict([resultUrls |-> List(<<Str("u1"), Str("u2")>>)])
      [] text = "[\"u1\"]" -> List(<<Str("u1")>>)
      [] OTHER -> JSONDecodeError

\* dict.get(key): None when the key is missing
DictGet(d, key) == IF key \in DOMAIN d.v THEN d.v[key] ELSE Null

\* KieClient.extract_result_url(detail)
extract_result_url(detail) ==
    LET raw == _safe_get(detail, <<"data", "resultJson">>)
    IN IF ~Truthy(raw) THEN Raised(<<"Missing data.resultJson">>)
       ELSE IF raw.t # "str" THEN Raised(<<"TypeError">>)
       ELSE LET parsed == json_loads(raw.v)
            IN IF parsed = JSONDecodeError THEN Raised(<<"JSONDecodeError">>)
               ELSE IF parsed.t # "dict" THEN Raised(<<"AttributeError">>)
               ELSE LET urls == Or(DictGet(parsed, "resultUrls"), List(<<>>))
                    IN IF ~Truthy(urls) THEN Raised(<<"Missing resultUrls">>)
                       ELSE Returned(urls.v[1])

\* The details poll_task may hand over: its state is success.
ResultDetails ==
    {MakeDict([data |-> d]) :
        d \in {Missing}
                 \cup {MakeDict([state |-> Str("success"), resultJson |-> rj]) :
                          rj \in {Missing, Null, Str(""), Num(7)} \cup {Str(x) : x \in JsonTexts}}}

ExtractCalls ==
    {[fn |-> "extract_result_url", pc |-> "called", detail |-> d, ret |-> Null, err |-> <<>>] :
        d \in ResultDetails}

kie_extract_result_url ==
    /\ call.fn = "extract_result_url" /\ call.pc = "called"
    /\ LET out == extract_result_url(call.detail)
       IN call' = [call EXCEPT !.pc = out.pc, !.ret = out.ret, !.err = out.err]
    /\ UNCHANGED pipeline

\* ---------------------------------------------------------------- KieClient.poll_task
\* Times are in milliseconds.
initial_delay == 2000
max_delay == 15000
timeout == 20 * 60 * 1000
GetTimeout == 30000          \* client.get(..., timeout=30.0)
JitterBound == 500           \* random.uniform(0, 0.5)

\* What time.time() and random.uniform may give: a request that is answered at
\* once or only when its own timeout is almost over, the least and the largest
\* jitter.
RequestTimes == {0, GetTimeout - 1}
Jitters == {0, JitterBound - 1}

Min(a, b) == IF a <= b THEN a ELSE b

\* Mutant: the backoff has no cap.
NextDelay_Uncapped(delay) == (delay * 13) \div 10

\* delay = min(self.max_delay, delay * 1.3), rounded down to the millisecond
NextDelay(delay) == Min(max_delay, (delay * 13) \div 10)

\* Mutant: the elapsed time is never tested.
PollTimedOut_Never(elapsed) == FALSE

\* if elapsed > self.timeout: raise TimeoutError
PollTimedOut(elapsed) == elapsed > timeout

\* Mutant: a failed task is not told from a running one.
TaskFailed_Never(state) == FALSE

\* if state == "fail": raise RuntimeError
TaskFailed(state) == state = Str("fail")

\* Mutant: the error does not say why the task failed.
TaskFailedError_Bare(detail) == <<"Task failed">>

\* RuntimeError(f"Task failed: code={fail_code}, msg={fail_msg}")
TaskFailedError(detail) ==
    <<"Task failed", PyStr(_safe_get(detail, <<"data", "failCode">>)),
                     PyStr(_safe_get(detail, <<"data", "failMsg">>))>>

\* The answers of the provider to a recordInfo request.
Details ==
    {MakeDict([data |-> MakeDict([state |-> st, failCode |-> f[1], failMsg |-> f[2]])]) :
        st \in {Missing, Str("waiting"), Str("success"), Str("fail")},
        f \in {<<Missing, Missing>>, <<Str("501"), Str("internal error")>>}}
PollAnswers ==
    {[status_code |-> 200, detail |-> d] :
        d \in {x \in Details :
                 \/ _safe_get(x, <<"data", "state">>) = Str("fail")
                 \/ {"failCode", "failMsg"} \cap DOMAIN x.v["data"].v = {}}}
        \cup {[status_code |-> 503, detail |-> Str("Service busy")]}

PollCalls ==
    {[fn |-> "poll_task", pc |-> "polling", elapsed |-> 0, delay |-> initial_delay,
      nominal |-> 0, sleep |-> 0, polls |-> 0, detail |-> Null, ret |-> Null,
      err |-> <<>>]}

\* One pass of the loop of poll_task: the GET, the tests of the state and of the
\* elapsed time, the sleep and the new delay.  call.detail is the answer the
\* loop ended with (at the head of the loop the local `detail` is dead).
kie_poll_task ==
    /\ call.fn = "poll_task" /\ call.pc = "polling"
    /\ \E answer \in PollAnswers, request_time \in RequestTimes, jitter \in Jitters :
         LET detail == answer.detail
             state == _safe_get(detail, <<"data", "state">>)
             elapsed == call.elapsed + request_time
             polled == [call EXCEPT !.polls = @ + 1, !.elapsed = elapsed]
             ended == [polled EXCEPT !.detail = detail]
         IN call' =
              IF HTTPStatusError(answer.status_code)
              THEN [ended EXCEPT !.pc = "raised", !.err = <<"HTTPStatusError">>]
              ELSE IF state = Str("success")
              THEN [ended EXCEPT !.pc = "returned", !.ret = detail]
              ELSE IF TaskFailed(state)
              THEN [ended EXCEPT !.pc = "raised", !.err = TaskFailedError(detail)]
              ELSE IF PollTimedOut(elapsed)
              THEN [ended EXCEPT !.pc = "raised", !.err = <<"Polling timeout">>]
              ELSE [polled EXCEPT !.nominal = call.delay,
                                  !.sleep = call.delay + jitter,
                                  !.elapsed = elapsed + call.delay + jitter,
                                  !.delay = NextDelay(call.delay)]
    /\ UNCHANGED pipeline

PollInit == PipelineInit /\ call \in PollCalls
PollNext == kie_poll_task
PollSpec == PollInit /\ [][PollNext]_vars

\* ---------------------------------------------------------------- StorageManager.generate_job_id
\* A title is a sequence of characters.
MaxTitleLen == 3
Alnum == {"a"}                       \* the characters with c.isalnum()
Characters == Alnum \cup {"_", "-", " "}
Titles == UNION {[1..n -> Characters] : n \in 0..MaxTitleLen}
Clock == {"20261104_101500", "20261104_101501"}    \* datetime.now().strftime(...)
Uuids == {"1f0e3dad", "9b2c88a1"}                  \* uuid.uuid4().hex[:8]
JobIdLimit == 50
MinTitleLen == 3                     \* title: min_length=3 (max_length=100)

\* c if c.isalnum() or c in "_-" else "_"  (a timestamp and a uuid prefix stand
\* for their characters, which are digits, hex digits and "_")
SafeChar(c) == IF c \in Alnum \/ c \in {"_", "-"} \/ c \in Clock \cup Uuids THEN c ELSE "_"

\* s.strip("_")
RECURSIVE LStrip(_)
LStrip(s) == IF s # <<>> /\ Head(s) = "_" THEN LStrip(Tail(s)) ELSE s
RECURSIVE RStrip(_)
RStrip(s) ==
    IF s # <<>> /\ s[Len(s)] = "_" THEN RStrip(SubSeq(s, 1, Len(s) - 1)) ELSE s
Strip(s) == RStrip(LStrip(s))

\* Mutant: the title is not used, every call makes a new id.
generate_job_id_Unique(title, now, uuid) == <<now, "_", uuid>>

\* StorageManager.generate_job_id(title), called at time now when uuid4 gives uuid
generate_job_id(title, now, uuid) ==
    IF title # <<>>
    THEN LET safe_title == Strip([i \in 1..Len(title) |-> SafeChar(title[i])])
         IN SubSeq(safe_title, 1, Min(Len(safe_title), JobIdLimit))
    ELSE <<now, "_", uuid>>

JobIdCalls ==
    {[fn |-> "generate_job_id", pc |-> "called", title |-> t, at |-> <<>>, ret |-> <<>>] :
        t \in Titles}

\* Two calls with the same title, each at some time.
call_generate_job_id ==
    /\ call.fn = "generate_job_id" /\ call.pc = "called"
    /\ \E now \in Clock, uuid \in Uuids :
         call' = [call EXCEPT !.at = Append(@, <<now, uuid>>),
                              !.ret = Append(@, generate_job_id(call.title, now, uuid)),
                              !.pc = IF Len(call.ret) = 1 THEN "returned" ELSE "called"]
    /\ UNCHANGED pipeline

\* A title whose sanitised form has "_" as its 50th character.
LongTitle == [i \in 1..JobIdLimit + 1 |-> IF i = JobIdLimit THEN " " ELSE "a"]

JobIdAgainCalls ==
    {[fn |-> "generate_job_id_again", pc |-> "called", title |-> t, first |-> <<>>,
      second |-> <<>>] : t \in Titles \cup {LongTitle}}

\* generate_job_id(title), then generate_job_id of the id it returned
call_generate_job_id_again ==
    /\ call.fn = "generate_job_id_again" /\ call.pc \in {"called", "once"}
    /\ \E now \in Clock, uuid \in Uuids :
         call' = IF call.pc = "called"
                 THEN [call EXCEPT !.pc = "once",
                                   !.first = generate_job_id(call.title, now, uuid)]
                 ELSE [call EXCEPT !.pc = "returned",
                                   !.second = generate_job_id(call.first, now, uuid)]
    /\ UNCHANGED pipeline

\* ---------------------------------------------------------------- StorageManager.save_job_metadata
\* A status record is the sequence of its items; json.dump writes it piece by piece.
Records == {<<"status=pending">>, <<"status=failed", "error=e">>}
json_dump(metadata) == <<"{">> \o metadata \o <<"}">>

\* metadata.json holds the record `old`; save_job_metadata is called with `metadata`.
SaveCalls ==
    {[fn |-> "save_job_metadata", pc |-> "called", old |-> o, metadata |-> m,
      file |-> json_dump(o)] : o \in Records, m \in Records}

\* open(metadata_path, 'w'): the file is truncated.
save_job_metadata_open ==
    /\ call.fn = "save_job_metadata" /\ call.pc = "called"
    /\ call' = [call EXCEPT !.pc = "writing", !.file = <<>>]
    /\ UNCHANGED pipeline

\* json.dump(metadata, f): the next piece reaches the file.
save_job_metadata_write ==
    /\ call.fn = "save_job_metadata" /\ call.pc = "writing"
    /\ Len(call.file) < Len(json_dump(call.metadata))
    /\ call' = [call EXCEPT !.file = Append(@, json_dump(call.metadata)[Len(@) + 1])]
    /\ UNCHANGED pipeline

\* The with block ends: the file is closed and the function returns.
save_job_metadata_close ==
    /\ call.fn = "save_job_metadata" /\ call.pc = "writing"
    /\ call.file = json_dump(call.metadata)
    /\ call' = [call EXCEPT !.pc = "returned"]
    /\ UNCHANGED pipeline

\* The process is stopped (killed, out of disk, power) while the file is open.
save_job_metadata_interrupted ==
    /\ call.fn = "save_job_metadata" /\ call.pc = "writing"
    /\ call' = [call EXCEPT !.pc = "interrupted"]
    /\ UNCHANGED pipeline

\* ---------------------------------------------------------------- StorageManager.update_job_status
\* The records metadata.json may hold before the call ({}: there is no file).
EmptyDict == [k \in {} |-> Absent]
StoredMetadata ==
    {EmptyDict,
     [status |-> PENDING, updated_at |-> "t0"],
     [status |-> PROCESSING, updated_at |-> "t0", message |-> "Generating videos",
      videos_completed |-> 1, videos_total |-> 2],
     [status |-> FAILED, updated_at |-> "t0", error |-> "Task failed"]}
Kwargs ==
    {EmptyDict,
     [message |-> "Generated videos", videos_completed |-> 2, videos_total |-> 2],
     [error |-> "Polling timeout"],
     [result |-> "final"]}

UpdateCalls ==
    {[fn |-> "update_job_status", pc |-> "called", old |-> m, file |-> m, status |-> st,
      now |-> "t1", kwargs |-> kw] :
        m \in StoredMetadata, st \in {PROCESSING, COMPLETED, FAILED}, kw \in Kwargs}

\* load_job_metadata, the three updates, save_job_metadata
storage_update_job_status ==
    /\ call.fn = "update_job_status" /\ call.pc = "called"
    /\ call' = [call EXCEPT !.pc = "returned",
                            !.file = UpdatedMetadata(call.file, call.status, call.now,
                                                     call.kwargs)]
    /\ UNCHANGED pipeline

\* ---------------------------------------------------------------- StorageManager.cleanup_old_jobs
\* The jobs directory: job id -> what cleanup_old_jobs looks at.  A job has a
\* status record (stamp: its updated_at, which update_job_status always sets),
\* or only a directory (stamp: the directory's mtime), or does not exist.
JobIds == {"j1", "j2"}
NoDir == [kind |-> "none", stamp |-> 0]
Now == 10 * Day                      \* datetime.now() of the call, in minutes
Stamps == {Now - 7 * Day - 1, Now - 7 * Day, Now - 1}
JobDirs == {NoDir} \cup [kind : {"record", "dir"}, stamp : Stamps]

CleanupCalls ==
    {[fn |-> "cleanup_old_jobs", pc |-> "called", days_old |-> d, before |-> j, dirs |-> j,
      cutoff |-> 0, todo |-> {}, deleted_count |-> 0, ret |-> -1] :
        d \in DaysOld, j \in [JobIds -> JobDirs]}

\* cutoff_time = ...; deleted_count = 0; self.jobs_dir.iterdir()
storage_cleanup_begin ==
    /\ call.fn = "cleanup_old_jobs" /\ call.pc = "called"
    /\ call' = [call EXCEPT !.pc = "scanning",
                            !.cutoff = cutoff_time(Now, call.days_old),
                            !.todo = {j \in JobIds : call.dirs[j] # NoDir}]
    /\ UNCHANGED pipeline

\* One pass of the loop: the job is deleted and counted when its updated_at
\* (status record) or its mtime (no status record) is before the cutoff.
storage_cleanup_visit ==
    /\ call.fn = "cleanup_old_jobs" /\ call.pc = "scanning"
    /\ \E job_id \in call.todo :
         call' = IF Older(call.dirs[job_id].stamp, call.cutoff)
                 THEN [call EXCEPT !.todo = @ \ {job_id},
                                   !.dirs[job_id] = NoDir,
                                   !.deleted_count = @ + 1]
                 ELSE [call EXCEPT !.todo = @ \ {job_id}]
    /\ UNCHANGED pipeline

\* return deleted_count
storage_cleanup_return ==
    /\ call.fn = "cleanup_old_jobs" /\ call.pc = "scanning"
    /\ call.todo = {}
    /\ call' = [call EXCEPT !.pc = "returned", !.ret = call.deleted_count]
    /\ UNCHANGED pipeline

\* ---------------------------------------------------------------- GET /api/jobs/{job_id}
\* The directories of one job under jobs/: "" is jobs/<id> itself.
JobDirectories == {"", "prompts"}

\* job_dir.mkdir(parents=True, exist_ok=True): the directories after the call
get_job_dir(dirs, stage) == dirs \cup {"", stage}

\* get_job_dir(job_id, stage="prompts").exists(), asked of what get_job_dir left
job_exists(dirs) == "prompts" \in get_job_dir(dirs, "prompts")

NotFound == "404"

\* A status query followed by a deletion.  entry: jobs[job_id] of the process,
\* dirs and file: the job's directories and its metadata.json on the disk.
\* A metadata.json needs its directory.
StatusCalls ==
    {c \in [fn : {"get_job_status"}, pc : {"called"},
            entry : {NoEntry, JobEntry(PROCESSING, "Generating prompts...", Absent, Absent)},
            before : {{}, JobDirectories}, dirs : {{}, JobDirectories},
            file : {EmptyDict, [status |-> FAILED, updated_at |-> "t0"]},
            response : {Absent}, deleted : {FALSE}] :
        c.dirs = c.before /\ (c.dirs = {} => c.file = EmptyDict)}

\* the handler: the in-memory entry first, then job_exists and the record
call_get_job_status ==
    /\ call.fn = "get_job_status" /\ call.pc = "called"
    /\ call' = IF call.entry # NoEntry
               THEN [call EXCEPT !.pc = "answered", !.response = call.entry.status]
               ELSE IF ~job_exists(call.dirs)
               THEN [call EXCEPT !.pc = "answered", !.response = NotFound,
                                 !.dirs = get_job_dir(call.dirs, "prompts")]
               ELSE [call EXCEPT !.pc = "answered",
                                 !.dirs = get_job_dir(call.dirs, "prompts"),
                                 !.response = IF "status" \in DOMAIN call.file
                                              THEN call.file.status ELSE PENDING]
    /\ UNCHANGED pipeline

\* StorageManager.delete_job after the query: True when jobs/<id> was there
call_delete_job ==
    /\ call.fn = "get_job_status" /\ call.pc = "answered"
    /\ call' = [call EXCEPT !.pc = "deleted", !.deleted = "" \in call.dirs, !.dirs = {}]
    /\ UNCHANGED pipeline

\* ---------------------------------------------------------------- GET /api/jobs
\* The entry of a job: "created_at" is metadata.get("updated_at"), None for a
\* job that has no status record.
ListEntry(job_id, dir) ==
    [job_id |-> job_id,
     status |-> IF dir.kind = "record" THEN "known" ELSE "unknown",
     created_at |-> IF dir.kind = "record" THEN Num(dir.stamp) ELSE Null]

\* x.get("created_at", ""): every entry has the key, the default is not used
SortKey(entry) == entry.created_at

\* list.sort compares the keys of neighbours with <, which Python defines
\* between two strings and neither between None and a string nor between None
\* and None.
SortTypeError(entries) ==
    Cardinality(entries) >= 2 /\ \E e \in entries : SortKey(e) = Null

\* The lists that sort(key=..., reverse=True) can leave: os.listdir gives the
\* directories in any order and entries of equal keys keep that order.
SortedNewestFirst(entries) ==
    {s \in [1..Cardinality(entries) -> entries] :
        /\ \A i, k \in DOMAIN s : i # k => s[i] # s[k]
        /\ \A i, k \in DOMAIN s : i < k => SortKey(s[i]).v >= SortKey(s[k]).v}

ListCalls ==
    {[fn |-> "list_jobs", pc |-> "called", dirs |-> j, jobs |-> <<>>, err |-> <<>>] :
        j \in [JobIds -> JobDirs]}

call_list_jobs ==
    /\ call.fn = "list_jobs" /\ call.pc = "called"
    /\ LET jobs_list == {ListEntry(j, call.dirs[j]) : j \in {i \in JobIds : call.dirs[i] # NoDir}}
       IN IF SortTypeError(jobs_list)
          THEN call' = [call EXCEPT !.pc = "raised", !.err = <<"TypeError">>]
          ELSE \E sorted_list \in SortedNewestFirst(jobs_list) :
                  call' = [call EXCEPT !.pc = "returned", !.jobs = sorted_list]
    /\ UNCHANGED pipeline

CallInit ==
    PipelineInit /\ call \in CreateTaskCalls \cup JobIdCalls \cup SaveCalls \cup CleanupCalls
                               \cup ExtractCalls \cup UpdateCalls \cup StatusCalls
                               \cup ListCalls \cup JobIdAgainCalls
CallNext ==
    \/ kie_create_task
    \/ call_generate_job_id
    \/ save_job_metadata_open
    \/ save_job_metadata_write
    \/ save_job_metadata_close
    \/ save_job_metadata_interrupted
    \/ storage_cleanup_begin
    \/ storage_cleanup_visit
    \/ storage_cleanup_return
    \/ kie_extract_result_url
    \/ storage_update_job_status
    \/ call_get_job_status
    \/ call_delete_job
    \/ call_list_jobs
    \/ call_generate_job_id_again
CallSpec == CallInit /\ [][CallNext]_vars

\* ---------------------------------------------------------------- a job's prompts and clips
\* The prompts and videos directories of one job under a sequence of calls of
\* save_prompts_json, of the video stage and of combine_videos, one after the
\* other.  A file of prompts/ is [name, data]; a clip of videos/ is its name.
MaxOps == 5
SafeTitleLimit == 30
Subjects == <<"cat", "dog">>         \* in the order of their file names
ShotLists == UNION {[1..n -> {Subjects[i] : i \in 1..Len(Subjects)}] : n \in 1..MaxShots}
PromptTitles == {<<"a">>, <<"a", " ">>, <<"a", "_">>, <<"a", "a">>}
PromptsData == [title : PromptTitles, prompts : ShotLists]

\* "".join(c if c.isalnum() else "_" for c in title)[:30], between job id and suffix
prompts_filename(data) ==
    LET safe_title == [i \in 1..Len(data.title) |->
                          IF data.title[i] \in Alnum THEN data.title[i] ELSE "_"]
    IN SubSeq(safe_title, 1, Min(Len(safe_title), SafeTitleLimit))

\* Mutant: no old prompts file is found.
glob_prompts_None(dir) == {}

\* job_dir.glob("*_prompts.json")
glob_prompts(dir) == dir

\* unlink every old prompts file, then open(filepath, 'w') and json.dump
save_prompts_json(dir, data) ==
    LET kept == dir \ glob_prompts(dir)
        filename == prompts_filename(data)
    IN {f \in kept : f.name # filename} \cup {[name |-> filename, data |-> data]}

\* f"{shot_number:02d}_{safe_subject}.mp4"
video_filename(shot_number, subject) == <<shot_number, subject>>

\* the order of sorted() on the file names
NameBefore(a, b) ==
    LET rank(s) == CHOOSE i \in 1..Len(Subjects) : Subjects[i] = s
    IN a[1] < b[1] \/ (a[1] = b[1] /\ rank(a[2]) < rank(b[2]))

RECURSIVE sorted(_)
sorted(names) ==
    IF names = {} THEN <<>>
    ELSE LET first == CHOOSE a \in names : \A b \in names \ {a} : NameBefore(a, b)
         IN <<first>> \o sorted(names \ {first})

NoPrompts == [name |-> <<>>, data |-> [title |-> <<>>, prompts |-> <<>>]]

StoreCall ==
    [fn |-> "store", ops |-> 0, last |-> "none", prompts_dir |-> {}, saved |-> NoPrompts,
     unlinked |-> {}, videos |-> {}, concatenated |-> FALSE, video_paths |-> <<>>]

\* PromptService: the model's answer is saved
store_save_prompts_json ==
    /\ call.fn = "store" /\ call.ops < MaxOps
    /\ \E data \in PromptsData :
         call' = [call EXCEPT !.ops = @ + 1, !.last = "save_prompts_json",
                              !.prompts_dir = save_prompts_json(@, data),
                              !.unlinked = {f.name : f \in glob_prompts(call.prompts_dir)},
                              !.saved = [name |-> prompts_filename(data), data |-> data]]
    /\ UNCHANGED pipeline

\* the video stage on prompts_files[0]: save_video for every shot of the file
store_generate_videos ==
    /\ call.fn = "store" /\ call.ops < MaxOps
    /\ \E prompts_file \in glob_prompts(call.prompts_dir) :
         LET shots == prompts_file.data.prompts
         IN call' = [call EXCEPT !.ops = @ + 1, !.last = "generate_videos",
                                 !.videos = @ \cup {video_filename(n, shots[n]) :
                                                       n \in 1..Len(shots)}]
    /\ UNCHANGED pipeline

\* MergeService.combine_videos: the existing output, or no clips, or the
\* concatenation of list_videos_for_job
store_combine_videos ==
    /\ call.fn = "store" /\ call.ops < MaxOps
    /\ call' = IF call.concatenated
               THEN [call EXCEPT !.ops = @ + 1, !.last = "skipped"]
               ELSE IF sorted(call.videos) = <<>>
               THEN [call EXCEPT !.ops = @ + 1, !.last = "ValueError"]
               ELSE [call EXCEPT !.ops = @ + 1, !.last = "concatenate_videos",
                                 !.video_paths = sorted(call.videos),
                                 !.concatenated = TRUE]
    /\ UNCHANGED pipeline

StoreInit == PipelineInit /\ call = StoreCall
StoreNext ==
    \/ store_save_prompts_json
    \/ store_generate_videos
    \/ store_combine_videos
StoreSpec == StoreInit /\ [][StoreNext]_vars

\* ================================================================ claims
FullRuns == {r \in Runs : runs[r].kind = "full"}
Acts(r) == runs'[r] # runs[r]
Shots == 1..MaxShots

\* C1: when generate_videos_from_prompts is invoked again for a job whose shot
\* n was stored by save_video in an earlier invocation, no create_task request
\* is sent for shot n (here: with the invocations one after the other).
C1_StoredShotsNotResubmitted ==
    [][\A n \in Shots :
          (~overlapped /\ created'[n] > created[n]) => ~Exists(get_video_path(n))]_vars

\* The artifacts one uninterrupted run of the pipeline leaves for n shots.
ArtifactsOfOneRun(n) ==
    {PromptsFile, get_concat_video_path, get_audio_path, get_final_video_path}
        \cup {get_video_path(i) : i \in 1..n}
        \cup {get_frame_path(i) : i \in 1..(n - 1)}

\* C2: a pipeline truncated after a stage (here: stopped by the failure of the
\* local concat or mux that follows the video or the narration stage) and run
\* again ends with the artifacts of one uninterrupted run, and over the runs
\* together the provider got exactly one request per shot and one for the
\* narration.
C2_ResumeEqualsSingleRun ==
    (/\ ~overlapped
     /\ \A r \in Runs : runs[r].kind \in {"full", Absent}
     /\ \A r \in Runs : runs[r].pc = "failed" => runs[r].stage \in {"concat", "mux"}
     /\ mem.status = COMPLETED)
        => /\ DOMAIN files = ArtifactsOfOneRun(files[PromptsFile].val)
           /\ \A n \in 1..files[PromptsFile].val : created[n] = 1
           /\ created[0] = 1

\* The order of the five stages, and what the stage before must have left.
StageAfter ==
    {<<Absent, "prompt">>, <<"prompt", "video">>, <<"video", "concat">>,
     <<"concat", "narration">>, <<"narration", "mux">>}

OutputComplete(r, stage) ==
    CASE stage = Absent -> TRUE
      [] stage = "prompt" -> Exists(PromptsFile)
      [] stage = "video" -> runs[r].nres = runs[r].n /\ runs[r].n >= 1
      [] stage = "concat" -> Exists(get_concat_video_path)
      [] stage = "narration" -> Exists(get_audio_path)
      [] OTHER -> FALSE

\* The artifacts a stage may write.
StagePaths(stage) ==
    CASE stage = "prompt" -> {PromptsFile}
      [] stage = "video" -> {get_video_path(n) : n \in Shots}
                                \cup {get_frame_path(n) : n \in Shots}
      [] stage = "concat" -> {get_concat_video_path}
      [] stage = "narration" -> {get_audio_path}
      [] stage = "mux" -> {get_final_video_path}
      [] OTHER -> {}

Written == {p \in DOMAIN files' : p \notin DOMAIN files \/ files'[p] # files[p]}

\* C3: a run of the full pipeline enters the stages prompt, video, concat,
\* narration, mux in this order, each only after the stage before has returned
\* its whole output (the video stage: one result per shot of the prompts
\* file), and whatever the run writes belongs to the one stage it is in.
C3_StagesInOrder ==
    [][\A r \in FullRuns :
          /\ runs'[r].stage # runs[r].stage =>
                /\ <<runs[r].stage, runs'[r].stage>> \in StageAfter
                /\ OutputComplete(r, runs[r].stage)
          /\ Acts(r) => Written \subseteq StagePaths(runs'[r].stage)]_vars

C3_Witness ==
    \E r \in FullRuns :
        runs[r].stage = "mux" /\ runs[r].pc = "done" /\ runs[r].n = MaxShots
            /\ mem.status = COMPLETED

\* C4: the create_task request for a shot n > 1 is sent only when the video of
\* shot n-1 that the loop holds exists on disk and the last frame taken from it
\* exists on disk under shot n-1.
C4_FrameChainOrder ==
    [][\A r \in Runs : \A n \in Shots :
          (Acts(r) /\ n > 1 /\ created'[n] > created[n]) =>
                /\ runs[r].prev \in {get_video_path(n - 1), expected_path(n - 1)}
                /\ Exists(runs[r].prev)
                /\ Exists(get_frame_path(n - 1))
                /\ files[get_frame_path(n - 1)] = Content("frame", n - 1)]_vars

C4_Witness == created[MaxShots] >= 1 /\ MaxShots > 1

\* C5: shot 1 is requested text-to-video; every later shot n is requested
\* image-to-video with the last frame of shot n-1's video, and the frame filed
\* under shot n-1 was taken from the video of shot n-1.
C5_SeedOfEachShot ==
    /\ \A q \in requests : q.unit >= 1 =>
          IF q.unit = 1
          THEN q.model = "sora-2-text-to-video" /\ q.image = 0
          ELSE q.model = "sora-2-image-to-video" /\ q.image = q.unit - 1
    /\ \A p \in DOMAIN files :
          /\ p[1] = "frames" => files[p] = Content("frame", p[3])
          /\ (p[1] = "videos" /\ p[3] >= 1) =>
                files[p] = IF p[3] = 1 THEN Content("text", 0)
                           ELSE Content("image", p[3] - 1)

C5_Witness ==
    /\ \E q \in requests : q.unit = 2
    /\ Exists(get_video_path(2))

\* C6: when a stage of the full pipeline raises, the job's status becomes
\* failed with the error's message in the status record, the run executes
\* nothing more, and the job stays failed until the next submission.
C6_FailureIsTerminal ==
    [][/\ \A r \in FullRuns :
            /\ (runs[r].pc # "failed" /\ runs'[r].pc = "failed") =>
                  /\ disk'.status = FAILED /\ mem'.status = FAILED
                  /\ disk'.error # Absent /\ mem'.error = disk'.error
            /\ runs[r].pc = "failed" => runs'[r] = runs[r]
       /\ (disk.status = FAILED /\ disk'.status # FAILED) => nruns' > nruns]_vars

\* C7: in every reachable state a status of completed, in the in-memory table
\* or in metadata.json, implies that final/final.mp4 exists.
C7_CompletedImpliesFinal ==
    (disk.status = COMPLETED \/ mem.status = COMPLETED) => Exists(get_final_video_path)

\* C7 as amended: a run of the full pipeline sets the status to completed, in
\* the in-memory table or in metadata.json, only when final/final.mp4 exists.
C7_PipelineCompletesAfterFinal ==
    [][\A r \in FullRuns :
          (/\ Acts(r)
           /\ \/ disk' # disk /\ disk'.status = COMPLETED
              \/ mem' # mem /\ mem'.status = COMPLETED)
              => get_final_video_path \in DOMAIN files']_vars

C7_Witness ==
    /\ mem = JobEntry(COMPLETED, "Complete pipeline finished successfully", "final", Absent)
    /\ disk.status = COMPLETED /\ disk.result = "final"
    /\ Exists(get_final_video_path)

\* C8: the status of the persisted status record is always one of pending,
\* processing, completed, failed.
C8_StatusInJobStatus == disk.status # Absent => disk.status \in JobStatus

\* C9: between two submissions the persisted status never moves backward: not
\* from processing to pending, and not away from completed or failed.
C9_StatusNeverMovesBack ==
    [][nruns' = nruns =>
          /\ ~(disk.status = PROCESSING /\ disk'.status = PENDING)
          /\ disk.status \in {COMPLETED, FAILED} => disk'.status = disk.status]_vars

\* C10: the status record never holds a result and an error together.
C10_ResultXorError == ~(disk.result # Absent /\ disk.error # Absent)

\* C11: a concat or mux that fails part-way leaves no file at
\* videos/concatenated.mp4 or final/final.mp4, so no run ever finds a partly
\* written file there and takes it for the finished artifact.
C11_NoPartialArtifact ==
    \A p \in {get_concat_video_path, get_final_video_path} :
        Exists(p) => files[p].tag # "partial"

\* The stage whose service a run is about to call, and the artifact it makes.
StageCalls ==
    {<<"concat", get_concat_video_path, "tts_enter">>,
     <<"tts", get_audio_path, "mux_enter">>,
     <<"mux", get_final_video_path, "finish">>}

\* C12: when the concat, narration or mux service is called and its artifact
\* exists already, it returns at once: no request goes to the provider, ffmpeg
\* does not run, and no artifact changes.
C12_ExistingArtifactIsReturned ==
    [][\A r \in Runs : \A c \in StageCalls :
          (Acts(r) /\ runs[r].pc = c[1] /\ Exists(c[2])) =>
                /\ runs'[r].pc = c[3]
                /\ files' = files
                /\ created' = created /\ requests' = requests]_vars

C12_Witness ==
    /\ ~overlapped
    /\ \A r \in {1, 2} : runs[r].kind = "full" /\ runs[r].pc = "done"
    /\ created[0] = 1
    /\ files[get_final_video_path] = Content("final", files[PromptsFile].val)

\* C18: a submitted run of the full pipeline in which nothing fails ends with
\* the job's status completed, in memory and on disk, and at that moment
\* final/final.mp4 exists and videos/concatenated.mp4 is still there.
C18_SuccessfulRunCompletes ==
    \A r \in Runs :
        (runs[r].kind = "full" /\ runs[r].pc = "queued")
            ~> \/ runs[r].pc = "failed"
               \/ /\ runs[r].pc = "done"
                  /\ mem.status = COMPLETED /\ disk.status = COMPLETED
                  /\ Exists(get_final_video_path)
                  /\ Exists(get_concat_video_path)

C18_Witness ==
    /\ \A r \in Runs : runs[r].pc # "failed"
    /\ \E r \in FullRuns : runs[r].pc = "done" /\ runs[r].n = MaxShots
    /\ mem.status = COMPLETED /\ disk.status = COMPLETED
    /\ Exists(get_final_video_path) /\ Exists(get_concat_video_path)

\* A run that has begun and has not ended.
Active(r) == runs[r].pc \notin {"idle", "queued", "done", "failed"}

\* C20: at most one pipeline at a time writes into the job's directory: a run
\* writes an artifact only while no other run of the job is active.
C20_OneWriterPerJob ==
    [][\A r \in FullRuns :
          (Acts(r) /\ Written # {}) => \A q \in FullRuns \ {r} : ~Active(q)]_vars

\* A body with an application-level code other than the provider's code of success.
EncodesError(data) ==
    data.t = "dict" /\ "code" \in DOMAIN data.v /\ data.v["code"] # Num(200)

\* A step that removes the job's directory.
Deleted == JobExists /\ ~JobExists'

\* C21: the job's files are never deleted, by delete or by cleanup-by-age,
\* while a task of the job has begun and has not ended.
C21_NoDeletionUnderActiveRun ==
    [][Deleted => \A r \in Runs : ~Active(r)]_vars

\* The job is older than the threshold of the call.
Stale(dir, days_old) == dir # NoDir /\ dir.stamp < Now - days_old * Day

\* C22: cleanup_old_jobs(days_old) never deletes a job whose updated_at (or,
\* without a status record, whose directory mtime) is within the threshold;
\* when it returns it has deleted exactly the jobs older than the threshold,
\* has left every other job as it was, and returns the number it deleted.
C22_CleanupDeletesTheOld ==
    call.fn = "cleanup_old_jobs" =>
        /\ \A j \in JobIds :
              /\ call.dirs[j] \in {call.before[j], NoDir}
              /\ ~Stale(call.before[j], call.days_old) => call.dirs[j] = call.before[j]
        /\ call.pc = "returned" =>
              /\ \A j \in JobIds :
                    Stale(call.before[j], call.days_old) => call.dirs[j] = NoDir
              /\ call.ret = Cardinality({j \in JobIds : Stale(call.before[j], call.days_old)})

C22_Witness ==
    /\ call.fn = "cleanup_old_jobs" /\ call.pc = "returned"
    /\ call.days_old = 7 /\ call.ret = 1
    /\ call.before["j1"] = [kind |-> "record", stamp |-> Now - 7 * Day - 1]
    /\ call.dirs["j1"] = NoDir
    /\ call.before["j2"] = [kind |-> "dir", stamp |-> Now - 7 * Day]
    /\ call.dirs["j2"] = call.before["j2"]

\* C22, its last clause: no step of a task and no submission removes the job.
C22_OnlyDeletionDeletes ==
    [][Deleted => (runs' = runs /\ nruns' = nruns /\ mem' = mem)]_vars

\* A value that is a task identifier: a text that is not empty, or a number.
HoldsId(x) == (x.t = "str" /\ x.v # "") \/ (x.t = "int" /\ x.v # 0)

\* What the answer holds at data.taskId, taskId and data.id, in this order.
IdPaths(data) ==
    <<_safe_get(data, <<"data", "taskId">>), _safe_get(data, <<"taskId">>),
      _safe_get(data, <<"data", "id">>)>>

\* C23: for an answer with a successful HTTP status and no code 500,
\* create_task returns, as a string, the identifier at the first of
\* data.taskId, taskId, data.id that holds one, and raises "No taskId in API
\* response" when none of the three holds one.
C23_FirstTaskIdWins ==
    (/\ call.fn = "create_task" /\ call.pc # "called"
     /\ ~HTTPStatusError(call.status_code)
     /\ _safe_get(call.data, <<"code">>) # Num(500))
        => LET ids == IdPaths(call.data)
               held == {i \in 1..3 : HoldsId(ids[i])}
           IN IF held = {}
              THEN call.pc = "raised" /\ call.err = <<"No taskId in API response">>
              ELSE LET first == ids[CHOOSE i \in held : \A j \in held : i <= j]
                   IN /\ call.pc = "returned"
                      /\ call.ret = IF first.t = "str" THEN first.v ELSE ToString(first.v)

C23_Witness ==
    /\ call.fn = "create_task" /\ call.pc = "returned" /\ call.ret = "t2"
    /\ IdPaths(call.data) = <<Str(""), Str("t2"), Num(7)>>

\* The resultUrls list that the text at data.resultJson encodes (<<>>: none).
ResultUrls(detail) ==
    LET raw == _safe_get(detail, <<"data", "resultJson">>)
        parsed == IF raw.t = "str" THEN json_loads(raw.v) ELSE Null
    IN IF parsed.t = "dict" /\ "resultUrls" \in DOMAIN parsed.v
          /\ parsed.v["resultUrls"].t = "list"
       THEN parsed.v["resultUrls"].v
       ELSE <<>>

\* C24: extract_result_url returns the first URL of the resultUrls list that
\* data.resultJson encodes, raises when data.resultJson or the list is absent
\* or empty, and what it returns is never empty or missing.
C24_ReturnsALocatorOrRaises ==
    (call.fn = "extract_result_url" /\ call.pc # "called") =>
        /\ IF ResultUrls(call.detail) = <<>>
           THEN call.pc = "raised"
           ELSE call.pc = "returned" /\ call.ret = ResultUrls(call.detail)[1]
        /\ call.pc = "returned" => (call.ret.t = "str" /\ call.ret.v # "")

\* Run r is about to call the concat service with no clip on disk, or the mux
\* service without the concatenated video or without the voiceover.
MissingInput(r) ==
    \/ runs[r].pc = "concat" /\ list_videos_for_job = {}
    \/ runs[r].pc = "mux" /\ (~Exists(get_concat_video_path) \/ ~Exists(get_audio_path))

C26_ExistingPromptsAreReused ==
    [][\A r \in FullRuns :
          /\ (Acts(r) /\ runs[r].pc = "queued" /\ Exists(PromptsFile)) =>
                /\ runs'[r].pc = "video_enter"
                /\ runs'[r].voice_text = files[PromptsFile].val
                /\ files' = files /\ mem' = mem /\ disk' = disk
          /\ (Acts(r) /\ runs[r].pc = "video_enter") =>
                /\ runs'[r].stage = "video"
                /\ runs'[r].n = files[PromptsFile].val
                /\ files' = files
          /\ runs[r].pc \notin {"idle", "queued", "prompt_gen"} =>
                runs'[r].voice_text = runs[r].voice_text
          /\ (Acts(r) /\ created'[0] > created[0]) =>
                requests' \ requests \subseteq
                    {[unit |-> 0, model |-> "elevenlabs/text-to-speech-multilingual-v2",
                      image |-> runs[r].voice_text]}]_vars

C26_Witness ==
    /\ ~overlapped /\ nruns = 2
    /\ runs[1].kind = "prompts" /\ runs[1].pc = "done"
    /\ runs[2].kind = "full" /\ runs[2].stage = "video" /\ runs[2].pc = "create"
    /\ runs[2].n = files[PromptsFile].val /\ runs[2].n = MaxShots
    /\ runs[2].voice_text = files[PromptsFile].val

\* C27: whenever a step of a background task changes the job's entry in the
\* in-memory table, the status it sets is the status of metadata.json after
\* the step; so between task steps the two statuses are equal.
C27_StatusChangesArePersisted ==
    [][\A r \in Runs :
          (Acts(r) /\ mem' # mem) => disk'.status = mem'.status]_vars

\* Run r is about to take the seed frame of its next shot, and the frame file
\* of the shot before is on disk already.
SeedFrameExists(r) ==
    /\ runs[r].pc = "shot"
    /\ ~LoopDone(runs[r].idx, runs[r].n)
    /\ ~Exists(expected_path(runs[r].idx))
    /\ UseImage(runs[r].prev, runs[r].idx)
    /\ Exists(runs[r].prev)
    /\ Exists(get_frame_path(FrameShot(runs[r].idx)))

\* C28: when the frame file of a shot exists already (here: left by an earlier
\* run that has ended), extract_last_frame returns it without running ffmpeg:
\* the step cannot end with the error of a failed extraction, and the run goes
\* on to upload the frame.
C28_ExistingFrameIsReused ==
    [][\A r \in Runs :
          (~overlapped /\ Acts(r) /\ SeedFrameExists(r)) =>
                /\ runs'[r].pc = "upload"
                /\ runs'[r].error # "FFmpeg failed to extract frame"]_vars

\* C29: the record update_job_status saves has every key of the record it
\* loaded, and besides these only status, updated_at and the keyword
\* arguments; every key other than status, updated_at and the keyword
\* arguments has the value it had.
C29_UpdateKeepsOtherKeys ==
    (call.fn = "update_job_status" /\ call.pc = "returned") =>
        LET changed == {"status", "updated_at"} \cup DOMAIN call.kwargs
        IN /\ DOMAIN call.old \subseteq DOMAIN call.file
           /\ DOMAIN call.file \subseteq DOMAIN call.old \cup changed
           /\ \A k \in DOMAIN call.old \ changed : call.file[k] = call.old[k]

C29_Witness ==
    /\ call.fn = "update_job_status" /\ call.pc = "returned"
    /\ "status" \in DOMAIN call.old /\ call.old.status = PROCESSING
    /\ call.status = FAILED
    /\ call.kwargs = [error |-> "Polling timeout"]
    /\ call.file = [status |-> FAILED, updated_at |-> "t1", message |-> "Generating videos",
                    videos_completed |-> 1, videos_total |-> 2, error |-> "Polling timeout"]

\* C30: for a title the API accepts (at least 3 characters), generate_job_id
\* returns an id that is not empty, has at most 50 characters, and consists of
\* alphanumeric characters, "_" and "-" only.
C30_JobIdIsSafe ==
    (call.fn = "generate_job_id" /\ Len(call.title) >= MinTitleLen) =>
        \A i \in DOMAIN call.ret :
            /\ call.ret[i] # <<>>
            /\ Len(call.ret[i]) <= JobIdLimit
            /\ \A c \in DOMAIN call.ret[i] : call.ret[i][c] \in Alnum \cup {"_", "-"}

\* C31: a status query for a job id that was never submitted answers not-found,
\* creates no directory, and a later delete_job still reports the id as absent.
NeverSubmitted == call.entry = NoEntry /\ call.before = {}
C31_UnknownJobIsLeftAbsent ==
    call.fn = "get_job_status" /\ NeverSubmitted =>
        /\ call.pc = "answered" => call.response = NotFound /\ call.dirs = {}
        /\ call.pc = "deleted" => ~call.deleted

\* GET /api/jobs/{job_id} asked of the job of the pipeline: the answer of the
\* handler in the current state.
get_job_status ==
    IF mem # NoEntry THEN mem.status
    ELSE IF ~job_exists(IF JobExists THEN JobDirectories ELSE {}) THEN NotFound
    ELSE IF disk.status # Absent THEN disk.status ELSE PENDING

\* C32: once delete_job has returned success, a status query for the job
\* answers not-found, and keeps answering so until the job is submitted again.
C32_DeletedJobIsNotFound ==
    /\ [][delete_job => get_job_status' = NotFound]_vars
    /\ [][get_job_status = NotFound /\ nruns' = nruns => get_job_status' = NotFound]_vars

\* The shots of the job's current prompts file, as clip names in shot order.
CurrentShots ==
    LET shots == call.saved.data.prompts
    IN [n \in 1..Len(shots) |-> video_filename(n, shots[n])]

\* C33: the clips that combine_videos passes to the concatenation are the shots
\* of the job's current prompts file, each once, in ascending shot order.
C33_ConcatenatesTheCurrentShots ==
    call.fn = "store" /\ call.last = "concatenate_videos" =>
        call.video_paths = CurrentShots

\* C34: after any sequence of save_prompts_json calls the prompts directory
\* holds exactly one prompts file, the one written by the most recent call.
C34_OnePromptsFile ==
    call.fn = "store" /\ call.saved # NoPrompts =>
        call.prompts_dir = {call.saved}

\* The most recent call found the file of an earlier call under another name.
C34_Witness ==
    /\ call.fn = "store" /\ call.last = "save_prompts_json"
    /\ call.unlinked # {} /\ call.saved.name \notin call.unlinked
    /\ call.prompts_dir = {call.saved}

\* C36: list_jobs returns one entry for every job directory, also for a job
\* without a status record, newest first by last update, and does not fail for
\* any mix of jobs.
C36_EveryJobIsListed ==
    call.fn = "list_jobs" /\ call.pc # "called" =>
        /\ call.pc = "returned"
        /\ Len(call.jobs) = Cardinality({j \in JobIds : call.dirs[j] # NoDir})
        /\ \A j \in JobIds : call.dirs[j] # NoDir =>
               \E i \in 1..Len(call.jobs) : call.jobs[i].job_id = j
        /\ \A i, k \in 1..Len(call.jobs) :
               (i < k /\ call.dirs[call.jobs[i].job_id].kind = "record"
                      /\ call.dirs[call.jobs[k].job_id].kind = "record") =>
                   call.dirs[call.jobs[i].job_id].stamp >= call.dirs[call.jobs[k].job_id].stamp

\* C37: in generate_videos_from_prompts the persisted counter videos_completed
\* goes up by one with each shot handled (it is the number of shots the
\* invocation has handled so far), never exceeds videos_total, and equals
\* videos_total and the number of results when the stage returns.
C37_ProgressCountsShots ==
    /\ [](disk.videos_completed \in 0..disk.videos_total)
    /\ [][\A r \in Runs :
            /\ runs'[r].nres = runs[r].nres + 1 =>
                   /\ disk'.videos_completed = runs[r].nres + 1
                   /\ disk'.videos_total = runs[r].n
            /\ (runs[r].pc = "shot" /\ runs'[r].pc = "concat_enter") =>
                   /\ disk.videos_completed = disk.videos_total
                   /\ disk.videos_total = runs[r].n
                   /\ runs[r].nres = runs[r].n]_vars

\* The stage has returned after handling the largest number of shots.
C37_Witness ==
    \E r \in Runs :
        /\ runs[r].pc = "concat_enter" /\ runs[r].n = MaxShots
        /\ runs[r].nres = MaxShots /\ disk.videos_completed = MaxShots

\* C13: create_task returns no task id for an answer with a successful HTTP
\* status whose body carries an application-level error code; every such
\* answer makes it raise.
C13_ErrorCodeRaises ==
    (/\ call.fn = "create_task" /\ call.pc # "called"
     /\ ~HTTPStatusError(call.status_code)
     /\ EncodesError(call.data))
        => call.pc = "raised" /\ call.ret = Absent

PollState(detail) == _safe_get(detail, <<"data", "state">>)

\* C14: poll_task does not poll forever.  It sleeps again only when the elapsed
\* time it measured was within the ceiling, so the number of polls is bounded;
\* when it ends on an answer that is neither success nor fail it raises the
\* timeout error, with the elapsed time above the ceiling; and after the error
\* it does nothing more.
C14_PollStopsAtCeiling ==
    /\ [](call.fn = "poll_task" =>
            /\ call.polls <= timeout \div initial_delay + 1
            /\ (call.pc = "polling" /\ call.polls >= 1) =>
                    call.elapsed - call.sleep <= timeout
            /\ (/\ call.pc # "polling"
                /\ call.err # <<"HTTPStatusError">>
                /\ PollState(call.detail) \notin {Str("success"), Str("fail")}) =>
                    /\ call.pc = "raised" /\ call.err = <<"Polling timeout">>
                    /\ call.elapsed > timeout)
    /\ [][(call.fn = "poll_task" /\ call.pc = "raised") => call' = call]_vars

C14_Witness ==
    /\ call.fn = "poll_task" /\ call.pc = "raised"
    /\ call.err = <<"Polling timeout">> /\ call.elapsed > timeout

\* C15: poll_task returns only the answer whose state is success; on an answer
\* whose state is fail it raises an error that carries the provider's failCode
\* and failMsg, and it sends no further poll.
C15_FailIsReported ==
    /\ [](call.fn = "poll_task" =>
            /\ call.pc = "returned" =>
                    call.ret = call.detail /\ PollState(call.ret) = Str("success")
            /\ (call.pc # "polling" /\ PollState(call.detail) = Str("fail")) =>
                    /\ call.pc = "raised"
                    /\ call.err = <<"Task failed",
                                    PyStr(_safe_get(call.detail, <<"data", "failCode">>)),
                                    PyStr(_safe_get(call.detail, <<"data", "failMsg">>))>>)
    /\ [][(call.fn = "poll_task" /\ call.pc # "polling") => call'.polls = call.polls]_vars

C15_Witness ==
    /\ call.fn = "poll_task" /\ call.pc = "raised" /\ call.polls > 1
    /\ call.err = <<"Task failed", "501", "internal error">>

\* C16: the nominal delay is 2.0 s at the first sleep, then 1.3 times the one
\* before, capped at 15.0 s: it never decreases and never exceeds the cap.
\* Every sleep is the nominal delay plus a jitter in [0, 0.5 s), and while the
\* nominal delay is below the cap a sleep is never shorter than the one before.
C16_Backoff ==
    /\ [](call.fn = "poll_task" =>
            /\ call.delay <= max_delay /\ call.nominal <= call.delay
            /\ (call.pc = "polling" /\ call.polls = 1) => call.nominal = initial_delay
            /\ call.sleep - call.nominal \in 0..(JitterBound - 1))
    /\ [][(/\ call.fn = "poll_task" /\ call.polls >= 1
           /\ call.pc = "polling" /\ call'.pc = "polling") =>
              /\ IF 13 * call.nominal >= 10 * max_delay
                 THEN call'.nominal = max_delay
                 ELSE /\ 10 * call'.nominal <= 13 * call.nominal
                      /\ 13 * call.nominal < 10 * (call'.nominal + 1)
              /\ call'.nominal >= call.nominal
              /\ call.nominal < max_delay => call'.sleep >= call.sleep]_vars

C16_Witness ==
    /\ call.fn = "poll_task" /\ call.pc = "polling"
    /\ call.nominal = max_delay /\ call.sleep = max_delay + JitterBound - 1

\* C17: for a title that is not empty, generate_job_id gives the same id at
\* every call, whenever it is made: the id depends on the title alone.
C17_JobIdDeterministic ==
    (call.fn = "generate_job_id" /\ call.title # <<>>) =>
        \A i, j \in DOMAIN call.ret : call.ret[i] = call.ret[j]

C17_Witness ==
    /\ call.fn = "generate_job_id" /\ Len(call.title) = MaxTitleLen
    /\ Len(call.ret) = 2 /\ call.at[1] # call.at[2]
    /\ call.ret[1] # <<>>

\* C19: whoever reads metadata.json, at any moment of an update or after an
\* update that was interrupted, finds the whole record of before or the whole
\* new record.
C19_ReaderSeesWholeRecord ==
    call.fn = "save_job_metadata" =>
        call.file \in {json_dump(call.old), json_dump(call.metadata)}
\* C35: poll_task raises its timeout error only on an answer whose state is
\* neither success nor fail; an answer with state success is returned and an
\* answer with state fail is reported as the failure of the task also when the
\* time elapsed is already above the ceiling.
C35_TimeoutComesLast ==
    call.fn = "poll_task" /\ call.pc # "polling" =>
        /\ call.err = <<"Polling timeout">> =>
               PollState(call.detail) \notin {Str("success"), Str("fail")}
        /\ (call.elapsed > timeout /\ PollState(call.detail) = Str("success")) =>
               call.pc = "returned" /\ call.ret = call.detail
        /\ (call.elapsed > timeout /\ PollState(call.detail) = Str("fail")) =>
               call.pc = "raised" /\ Head(call.err) = "Task failed"

\* A failure reported after the ceiling.
C35_Witness ==
    /\ call.fn = "poll_task" /\ call.pc = "raised" /\ call.elapsed > timeout
    /\ PollState(call.detail) = Str("fail") /\ Head(call.err) = "Task failed"

\* C38: generate_job_id is idempotent on its own results: for every title t,
\* generate_job_id(generate_job_id(t)) is generate_job_id(t).
C38_JobIdIsIdempotent ==
    call.fn = "generate_job_id_again" /\ call.pc = "returned" =>
        call.second = call.first

====
